---------------------------- MODULE Spec2Model ----------------------------
(***************************************************************************)
(* A model of projects.py: the command dispatch of ProjectsApp, the email  *)
(* ingestion of EmailProcessor, the project documents of ProjectEntity and *)
(* the JSON document store of JsonStore over a shared filesystem.          *)
(*                                                                         *)
(* Python strings are sequences of one-character strings, bytes objects    *)
(* are sequences of integers 0..255, dicts are functions from keys to      *)
(* values (a record), lists are sequences.  A file's contents is the JSON  *)
(* value json.loads gives back for it.                                     *)
(*                                                                         *)
(* Every invocation of the program is a process.  A step of a process is   *)
(* one operation on the filesystem or on the SMTP server together with the *)
(* code that runs up to the next one, so that the steps of processes that  *)
(* share the filesystem interleave as their system calls do.  A write and  *)
(* a send may raise instead of taking effect.                              *)
(***************************************************************************)
EXTENDS Integers, Sequences, FiniteSets, TLC

(***************************************************************************)
(* Bounds of the model.                                                    *)
(***************************************************************************)
\* Number of command invocations (processes started) in one behaviour.
MaxCommands == 4
\* Number of invocations when their steps may interleave.
MaxConcurrent == 3

\* The operating-system processes that may run the program at the same time.
Procs == {1, 2}

(***************************************************************************)
(* String literals of the program.                                         *)
(***************************************************************************)
ProjectsDir == <<"p", "r", "o", "j", "e", "c", "t", "s", "/">>
ConversationsDir == <<"/", "c", "o", "n", "v", "e", "r", "s", "a", "t", "i", "o", "n", "s", "/">>
ConversationsNs == <<"/", "c", "o", "n", "v", "e", "r", "s", "a", "t", "i", "o", "n", "s">>
EntriesDir == <<"/", "c", "o", "n", "v", "e", "r", "s", "a", "t", "i", "o", "n", "s", "/", "e", "n", "t", "r", "i", "e", "s", "/">>
EntriesNs == <<"/", "c", "o", "n", "v", "e", "r", "s", "a", "t", "i", "o", "n", "s", "/", "e", "n", "t", "r", "i", "e", "s">>
EmailsNs == <<"/", "e", "m", "a", "i", "l", "s">>
IndexId == <<"i", "n", "d", "e", "x">>
JsonExt == <<".", "j", "s", "o", "n">>
MailDomain == <<"@", "p", "r", "o", "j", "e", "c", "t", "s", ".", "r", "i", "c", "k", "a", "r", "d", "l", "i", "n", "d", "b", "e", "r", "g", ".", "m", "e">>
UuidPrefix == <<"u", "u", "i", "d">>
ProcessEmailCmd == <<"p", "r", "o", "c", "e", "s", "s", "_", "e", "m", "a", "i", "l">>
CreateProjectCmd == <<"c", "r", "e", "a", "t", "e", "_", "p", "r", "o", "j", "e", "c", "t">>
WatchProjectCmd == <<"w", "a", "t", "c", "h", "_", "p", "r", "o", "j", "e", "c", "t">>
NoPlainBody == <<"<", "n", "o", " ", "p", "l", "a", "i", "n", " ", "b", "o", "d", "y", " ", "f", "o", "u", "n", "d", ">">>
HFrom == <<"F", "r", "o", "m">>
HTo == <<"T", "o">>
HSubject == <<"S", "u", "b", "j", "e", "c", "t">>
HReplyTo == <<"R", "e", "p", "l", "y", "-", "T", "o">>
HContentType == <<"C", "o", "n", "t", "e", "n", "t", "-", "T", "y", "p", "e">>
HContentTransferEncoding == <<"C", "o", "n", "t", "e", "n", "t", "-", "T", "r", "a", "n", "s", "f", "e", "r", "-", "E", "n", "c", "o", "d", "i", "n", "g">>
HMimeVersion == <<"M", "I", "M", "E", "-", "V", "e", "r", "s", "i", "o", "n">>
TextPlainUtf8 == <<"t", "e", "x", "t", "/", "p", "l", "a", "i", "n", ";", " ", "c", "h", "a", "r", "s", "e", "t", "=", "\"", "u", "t", "f", "-", "8", "\"">>
TextPlain == <<"t", "e", "x", "t", "/", "p", "l", "a", "i", "n">>
SevenBit == <<"7", "b", "i", "t">>
OneDotZero == <<"1", ".", "0">>

\* Python's None, where a string is expected: no string has a
\* several-character element.
None == <<"None">>

(***************************************************************************)
(* Python string operations.                                               *)
(***************************************************************************)
\* s.find(c) + 1: the place of the first c in s, 0 when there is none.
Find(s, c) ==
    IF \E i \in 1..Len(s) : s[i] = c
    THEN CHOOSE i \in 1..Len(s) : s[i] = c /\ \A j \in 1..(i - 1) : s[j] # c
    ELSE 0

\* s.split(c, 1)[0]
SplitFirst(s, c) ==
    IF Find(s, c) = 0 THEN s ELSE SubSeq(s, 1, Find(s, c) - 1)

\* s.startswith(t)
StartsWith(s, t) == Len(s) >= Len(t) /\ SubSeq(s, 1, Len(t)) = t

\* s.split(c)
RECURSIVE Split(_, _)
Split(s, c) ==
    IF Find(s, c) = 0 THEN <<s>>
    ELSE <<SubSeq(s, 1, Find(s, c) - 1)>> \o Split(SubSeq(s, Find(s, c) + 1, Len(s)), c)

\* str(n) of a natural number
Digits == <<"0", "1", "2", "3", "4", "5", "6", "7", "8", "9">>
RECURSIVE Str(_)
Str(n) == IF n < 10 THEN <<Digits[n + 1]>> ELSE Str(n \div 10) \o <<Digits[(n % 10) + 1]>>

\* The ASCII code of a character; bytes.decode("ascii") and str.encode are
\* this table read in its two directions.
Ord ==
    ("\n" :> 10) @@ (" " :> 32) @@ ("!" :> 33) @@ ("\"" :> 34) @@ ("+" :> 43) @@ ("-" :> 45) @@
    ("." :> 46) @@ ("/" :> 47) @@ ("0" :> 48) @@ ("1" :> 49) @@ ("2" :> 50) @@ ("3" :> 51) @@
    ("4" :> 52) @@ ("5" :> 53) @@ ("6" :> 54) @@ ("7" :> 55) @@ ("8" :> 56) @@ ("9" :> 57) @@
    (":" :> 58) @@ (";" :> 59) @@ ("<" :> 60) @@ ("=" :> 61) @@ (">" :> 62) @@ ("@" :> 64) @@
    ("C" :> 67) @@ ("E" :> 69) @@ ("F" :> 70) @@ ("H" :> 72) @@ ("I" :> 73) @@ ("M" :> 77) @@
    ("R" :> 82) @@ ("S" :> 83) @@ ("T" :> 84) @@ ("V" :> 86) @@ ("W" :> 87) @@ ("_" :> 95) @@
    ("a" :> 97) @@ ("b" :> 98) @@ ("c" :> 99) @@ ("d" :> 100) @@ ("e" :> 101) @@
    ("f" :> 102) @@ ("g" :> 103) @@ ("h" :> 104) @@ ("i" :> 105) @@ ("j" :> 106) @@
    ("k" :> 107) @@ ("l" :> 108) @@ ("m" :> 109) @@ ("n" :> 110) @@ ("o" :> 111) @@
    ("p" :> 112) @@ ("q" :> 113) @@ ("r" :> 114) @@ ("s" :> 115) @@ ("t" :> 116) @@
    ("u" :> 117) @@ ("v" :> 118) @@ ("w" :> 119) @@ ("x" :> 120) @@ ("y" :> 121) @@
    ("z" :> 122)
Chr(b) == CHOOSE c \in DOMAIN Ord : Ord[c] = b
Encode(s) == [i \in 1..Len(s) |-> Ord[s[i]]]
Decode(b) == [i \in 1..Len(b) |-> Chr(b[i])]

(***************************************************************************)
(* base64 (RFC 4648), as base64.b64encode and base64.b64decode compute it. *)
(***************************************************************************)
B64Alphabet == <<"A", "B", "C", "D", "E", "F", "G", "H", "I", "J", "K", "L", "M", "N", "O", "P", "Q", "R", "S", "T", "U", "V", "W", "X", "Y", "Z", "a", "b", "c", "d", "e", "f", "g", "h", "i", "j", "k", "l", "m", "n", "o", "p", "q", "r", "s", "t", "u", "v", "w", "x", "y", "z", "0", "1", "2", "3", "4", "5", "6", "7", "8", "9", "+", "/">>
B64Char(v) == B64Alphabet[v + 1]
B64Val(c) == (CHOOSE i \in 1..Len(B64Alphabet) : B64Alphabet[i] = c) - 1

\* b64encode(b).decode("ascii"): every three bytes give four characters, and
\* a last group of one or two bytes is padded with "=".
b64encode(b) ==
    LET n == Len(b)
        Byte(i) == IF i <= n THEN b[i] ELSE 0
        Char(j) ==
            LET i == 3 * ((j - 1) \div 4) + 1
                k == (j - 1) % 4
            IN  IF k = 0 THEN B64Char(Byte(i) \div 4)
                ELSE IF k = 1 THEN B64Char((Byte(i) % 4) * 16 + Byte(i + 1) \div 16)
                ELSE IF k = 2 THEN
                    IF i + 1 > n THEN "="
                    ELSE B64Char((Byte(i + 1) % 16) * 4 + Byte(i + 2) \div 64)
                ELSE IF i + 2 > n THEN "=" ELSE B64Char(Byte(i + 2) % 64)
    IN  [j \in 1..(4 * ((n + 2) \div 3)) |-> Char(j)]

\* b64decode(s) of a padded base64 string
RECURSIVE b64decode(_)
b64decode(s) ==
    IF Len(s) < 4 THEN <<>>
    ELSE IF s[3] = "=" THEN
        <<B64Val(s[1]) * 4 + B64Val(s[2]) \div 16>>
    ELSE IF s[4] = "=" THEN
        <<B64Val(s[1]) * 4 + B64Val(s[2]) \div 16,
          (B64Val(s[2]) % 16) * 16 + B64Val(s[3]) \div 4>>
    ELSE
        <<B64Val(s[1]) * 4 + B64Val(s[2]) \div 16,
          (B64Val(s[2]) % 16) * 16 + B64Val(s[3]) \div 4,
          (B64Val(s[3]) % 4) * 64 + B64Val(s[4])>>
        \o b64decode(SubSeq(s, 5, Len(s)))

(***************************************************************************)
(* Python dicts and os.path.                                               *)
(***************************************************************************)
\* The empty dict {}.
EmptyDict == <<>>
\* d[k] = v
DictSet(d, k, v) == [j \in (DOMAIN d) \cup {k} |-> IF j = k THEN v ELSE d[j]]
\* d.get(k, default)
DictGet(d, k, default) == IF k \in DOMAIN d THEN d[k] ELSE default

\* os.path.join(a, b) on POSIX
os_path_join(a, b) ==
    IF Len(b) > 0 /\ b[1] = "/" THEN b
    ELSE IF Len(a) = 0 \/ a[Len(a)] = "/" THEN a \o b
    ELSE a \o <<"/">> \o b

(***************************************************************************)
(* class Email: a wrapper of email.message.EmailMessage, modelled as its   *)
(* header list (in order) and its payload.  The messages of the model are  *)
(* single-part and ASCII, with header names in their canonical case and    *)
(* header lines short enough not to be folded.  A header remembers whether *)
(* the parser read it or the program set it: the generator writes the      *)
(* former as it was read and folds the latter from its value.              *)
(***************************************************************************)
\* Email(): an EmailMessage with no header and no payload
Email_new == [headers |-> <<>>, body |-> <<>>]

\* email_message[name]: the first header of that name, None without one
Email_get(email, name) ==
    IF \E i \in 1..Len(email.headers) : email.headers[i].name = name
    THEN email.headers[CHOOSE i \in 1..Len(email.headers) :
            /\ email.headers[i].name = name
            /\ \A j \in 1..(i - 1) : email.headers[j].name # name].value
    ELSE None

\* del email_message[name]; email_message[name] = value
Email_set_header(email, name, value) ==
    LET Other(h) == h.name # name
    IN  [email EXCEPT !.headers =
            Append(SelectSeq(email.headers, Other),
                   [name |-> name, value |-> value, parsed |-> FALSE])]

\* email_message.set_content(body): the payload ends with a newline, the
\* content headers are replaced and MIME-Version is added when missing
Email_set_plain_text_body(email, body) ==
    LET NotContent(h) == h.name \notin {HContentType, HContentTransferEncoding}
        kept == SelectSeq(email.headers, NotContent)
        typed == kept \o <<[name |-> HContentType, value |-> TextPlainUtf8,
                            parsed |-> FALSE],
                           [name |-> HContentTransferEncoding, value |-> SevenBit,
                            parsed |-> FALSE]>>
        HasMime == \E i \in 1..Len(kept) : kept[i].name = HMimeVersion
    IN  [headers |-> IF HasMime THEN typed
                     ELSE Append(typed, [name |-> HMimeVersion, value |-> OneDotZero,
                                         parsed |-> FALSE]),
         body |-> IF Len(body) > 0 /\ body[Len(body)] = "\n" THEN body
                  ELSE body \o <<"\n">>]

Email_get_to(email) == Email_get(email, HTo)
Email_get_from(email) == Email_get(email, HFrom)
Email_get_subject(email) == Email_get(email, HSubject)
Email_get_plain_text_body(email) == email.body
Email_set_to(email, to_address) == Email_set_header(email, HTo, to_address)
Email_set_from(email, from_address) == Email_set_header(email, HFrom, from_address)
Email_set_subject(email, subject) == Email_set_header(email, HSubject, subject)
Email_set_reply_to(email, reply_to) == Email_set_header(email, HReplyTo, reply_to)

\* Email.create_test_instance
Email_create_test_instance(from_address, to_address, body, subject) ==
    Email_set_subject(
        Email_set_plain_text_body(
            Email_set_to(Email_set_from(Email_new, from_address), to_address),
            body),
        subject)

\* policy.fold of one short header: a header the parser read is written
\* as "Name: " and its value, a header the program set as "Name:" and its
\* value after a space, and as "Name:" alone when the value is empty
Header_fold(header) ==
    IF header.parsed \/ header.value # <<>>
    THEN header.name \o <<":", " ">> \o header.value \o <<"\n">>
    ELSE header.name \o <<":", "\n">>

\* The header block of a header list
RECURSIVE HeaderBlock(_)
HeaderBlock(headers) ==
    IF headers = <<>> THEN <<>>
    ELSE Header_fold(Head(headers)) \o HeaderBlock(Tail(headers))

\* render: email_message.as_bytes()
Email_render(email) ==
    Encode(HeaderBlock(email.headers) \o <<"\n">> \o email.body)

\* The place of the blank line ending the header block ("\n\n"), 0 without one
FindBlankLine(text) ==
    IF \E i \in 1..(Len(text) - 1) : text[i] = "\n" /\ text[i + 1] = "\n"
    THEN CHOOSE i \in 1..(Len(text) - 1) :
            /\ text[i] = "\n" /\ text[i + 1] = "\n"
            /\ \A j \in 1..(i - 1) : ~(text[j] = "\n" /\ text[j + 1] = "\n")
    ELSE 0

\* The mutant of the parser that keeps the blanks after the colon
LStrip_none(value) == value
\* value.lstrip(" \t")
RECURSIVE LStrip(_)
LStrip(value) ==
    IF value # <<>> /\ Head(value) \in {" ", "\t"} THEN LStrip(Tail(value))
    ELSE value

\* policy.header_source_parse of one header line: the name before the
\* colon, the value after it without its leading blanks
HeaderOfLine(line) ==
    [name |-> SplitFirst(line, ":"),
     value |-> LStrip(SubSeq(line, Find(line, ":") + 1, Len(line))),
     parsed |-> TRUE]

\* Email.parse: BytesParser(policy=default).parsebytes(text)
Email_parse(bytes) ==
    LET text == Decode(bytes)
        blank == FindBlankLine(text)
        head == IF blank = 0 THEN text ELSE SubSeq(text, 1, blank - 1)
        IsHeader(line) == Find(line, ":") > 1
        lines == SelectSeq(Split(head, "\n"), IsHeader)
    IN  [headers |-> [i \in 1..Len(lines) |-> HeaderOfLine(lines[i])],
         body |-> IF blank = 0 THEN <<>> ELSE SubSeq(text, blank + 2, Len(text))]

\* The mutant of get_user that routes on the From address
Email_get_user_from(email) == SplitFirst(Email_get_from(email), "@")
\* Email.get_user: self.get_to().split("@", 1)[0]
Email_get_user(email) == SplitFirst(Email_get_to(email), "@")

\* Email.copy_plain_text_body_from: the text/plain body of a single-part
\* message, the placeholder for any other content type
Email_copy_plain_text_body_from(target, email) ==
    LET ctype == Email_get(email, HContentType)
        plain == ctype = None \/ StartsWith(ctype, TextPlain)
    IN  Email_set_plain_text_body(target, IF plain THEN email.body ELSE NoPlainBody)

(***************************************************************************)
(* The inputs: argument vectors and the bytes on standard input.           *)
(***************************************************************************)
Timeline == <<"t">>
Ghost == <<"g">>
ProjectNames == {Timeline, Ghost}
Watcher1 == <<"a", "@", "x">>
Watcher2 == <<"b", "@", "x">>
WatcherAddresses == {Watcher1, Watcher2}
UnknownCmd == <<"u", "n", "k", "n", "o", "w", "n", "_", "c", "o", "m", "m", "a", "n", "d">>

\* The local part of the Reply-To address of a notification about the
\* conversation uuid3 of the project: a watcher's reply is addressed to it
ReplyLocal == Timeline \o <<"+">> \o <<"u", "u", "i", "d", "3">>

\* What the senders of the inbound messages wrote: the From address, the
\* local part and the domain of the To address, the subject and the body.
Senders ==
    { [from |-> <<"u", "@", "x">>, local |-> Timeline, domain |-> <<"d">>,
       subject |-> <<"H", "i", "!">>, body |-> <<"h", "i">>, has_to |-> TRUE],
      [from |-> <<"v", "@", "x">>, local |-> Timeline, domain |-> <<"d">>,
       subject |-> <<"H", "i", "!">>, body |-> <<"h", "i">>, has_to |-> TRUE],
      [from |-> <<"u", "@", "x">>, local |-> Ghost, domain |-> <<"d">>,
       subject |-> <<"y", "o">>, body |-> <<"h", "i">>, has_to |-> TRUE],
      [from |-> <<"a", "@", "x">>, local |-> ReplyLocal, domain |-> <<"d">>,
       subject |-> <<"H", "i", "!">>, body |-> <<"h", "i">>, has_to |-> TRUE],
      [from |-> <<"u", "@", "x">>, local |-> <<>>, domain |-> <<>>,
       subject |-> <<"y", "o">>, body |-> <<"h", "i">>, has_to |-> FALSE] }
\* No message: standard input is empty.
NoSender ==
    [from |-> <<>>, local |-> <<>>, domain |-> <<>>, subject |-> <<>>,
     body |-> <<>>, has_to |-> FALSE]

\* The bytes of a sender's message, rendered as the doctests render theirs.
Wire(m) ==
    IF m = NoSender THEN <<>>
    ELSE IF m.has_to THEN
        Email_render(Email_create_test_instance(
            m.from, m.local \o <<"@">> \o m.domain, m.body, m.subject))
    ELSE
        Email_render(Email_set_subject(
            Email_set_plain_text_body(Email_set_from(Email_new, m.from), m.body),
            m.subject))

\* The bytes standard input may hold, by sender
StdinOf == [m \in Senders \cup {NoSender} |-> Wire(m)]

\* A message for a project, as the doctests of process_email pipe it in
TestMessage ==
    [from |-> <<"u", "@", "x">>, local |-> Timeline, domain |-> <<"d">>,
     subject |-> <<"H", "i", "!">>, body |-> <<"h", "i">>, has_to |-> TRUE]
\* What standard input may hold when the arguments are a: a message for
\* process_email; for an unknown command a message or nothing; for the
\* commands that take their input from the arguments, nothing
StdinChoices(a) ==
    IF a = <<ProcessEmailCmd>> THEN Senders
    ELSE IF a = <<UnknownCmd>> THEN {NoSender, TestMessage}
    ELSE {NoSender}

\* sys.argv[1:] of an invocation
ArgVectors ==
    {<<ProcessEmailCmd>>, <<UnknownCmd>>}
    \cup {<<CreateProjectCmd, n>> : n \in ProjectNames}
    \cup {<<WatchProjectCmd, n, w>> : n \in ProjectNames, w \in WatcherAddresses}

(***************************************************************************)
(* JsonStore, UUID and the entities' namespaces.                           *)
(***************************************************************************)
\* The mutant of path that leaves the id out of the file name
JsonStore_path_no_id(namespace, object_id) == os_path_join(namespace, JsonExt)
\* JsonStore.path
JsonStore_path(namespace, object_id) == os_path_join(namespace, object_id \o JsonExt)

\* ProjectEntity.__init__: the namespace of a project, whose id is "index"
ProjectNamespace(name) == ProjectsDir \o name
ProjectPath(name) == JsonStore_path(ProjectNamespace(name), IndexId)
\* The namespaces create_conversation and the entity classes use
\* The mutant of create_conversation that stores the conversation in the
\* namespace of the entries
ConversationPath_entries(name, id) ==
    JsonStore_path(ProjectsDir \o name \o EntriesDir, id)
ConversationPath(name, id) == JsonStore_path(ProjectsDir \o name \o ConversationsDir, id)
ConversationEntityPath(name, id) == JsonStore_path(ProjectsDir \o name \o ConversationsNs, id)
EntryPath(name, id) == JsonStore_path(ProjectsDir \o name \o EntriesDir, id)
ConversationEntryEntityPath(name, id) == JsonStore_path(ProjectsDir \o name \o EntriesNs, id)
EmailPath(name, id) == JsonStore_path(ProjectsDir \o name \o EmailsNs, id)

\* The mutant of uuid4 whose counter stays where it is
NullUuid_uuid4_stuck(counter) == counter
\* NullUuid.uuid4: self.counter += 1
NullUuid_uuid4(counter) == counter + 1
\* NullUuid4.hex: f"uuid{number}"
NullUuid4_hex(number) == UuidPrefix \o Str(number)

\* in_memory_store[path] = contents
Filesystem_write(files, path, contents) ==
    [q \in (DOMAIN files) \cup {path} |-> IF q = path THEN contents ELSE files[q]]
\* path in in_memory_store
Filesystem_exists(files, path) == path \in DOMAIN files

\* The mutant of append that writes back the field alone
JsonStore_append_item_alone(x, key, item) ==
    [k \in {key} |-> Append(DictGet(x, key, <<>>), item)]
\* The mutant of append that starts the field anew
JsonStore_append_item_replace(x, key, item) == DictSet(x, key, <<item>>)
\* The mutant of append that expects the field to be there
JsonStore_append_item_no_init(x, key, item) ==
    IF key \in DOMAIN x THEN DictSet(x, key, Append(x[key], item)) ELSE x
\* JsonStore.append, between its load and its write:
\* if key not in x: x[key] = []; x[key].append(item)
JsonStore_append_item(x, key, item) ==
    DictSet(x, key, Append(DictGet(x, key, <<>>), item))

\* The mutant of EmailEntity.create that drops the last byte of the message
EmailEntity_data_truncated(raw_email) ==
    [raw_email |-> b64encode(SubSeq(raw_email, 1, Len(raw_email) - 1))]
\* EmailEntity.create: the document of an archived message
EmailEntity_data(raw_email) == [raw_email |-> b64encode(raw_email)]

\* The mutant of the entry that is built before the email's id is known
EntryData_unset(email_id) == [source_email |-> None]
\* The entry document of create_conversation
EntryData(email_id) == [source_email |-> email_id]
\* The conversation document of create_conversation
ConversationData(subject, entry_id) ==
    [subject |-> subject, entries |-> <<[id |-> entry_id]>>]

\* The mutant of the watcher loop that notifies each address once
WatchersOf_dedup(project_document) ==
    LET ws == DictGet(project_document, "watchers", <<>>)
        First(i) == \A j \in 1..(i - 1) : ws[j] # ws[i]
        keep == {i \in 1..Len(ws) : First(i)}
        Rank(i) == Cardinality({j \in keep : j <= i})
    IN  [k \in 1..Cardinality(keep) |-> ws[CHOOSE i \in keep : Rank(i) = k]]
\* self.db.project(project).load().get("watchers", [])
WatchersOf(project_document) == DictGet(project_document, "watchers", <<>>)

\* The mutant of the notification whose Reply-To is the project's address
Notification_plain_reply_to(email, project, conversation_id, watcher) ==
    Email_set_reply_to(
        Email_set_from(
            Email_set_to(
                Email_set_subject(
                    Email_copy_plain_text_body_from(Email_new, email),
                    Email_get_subject(email)),
                watcher),
            project \o MailDomain),
        project \o MailDomain)
\* The notification EmailProcessor.process builds for one watcher
Notification(email, project, conversation_id, watcher) ==
    Email_set_reply_to(
        Email_set_from(
            Email_set_to(
                Email_set_subject(
                    Email_copy_plain_text_body_from(Email_new, email),
                    Email_get_subject(email)),
                watcher),
            project \o MailDomain),
        project \o <<"+">> \o conversation_id \o MailDomain)

\* The EMAIL_SENT event SMTPServer.send notifies of a message
EmailSentEvent(message) ==
    [from |-> Email_get(message, HFrom),
     to |-> Email_get(message, HTo),
     reply_to |-> Email_get(message, HReplyTo),
     subject |-> Email_get(message, HSubject),
     body |-> message.body]

(***************************************************************************)
(* The state.                                                              *)
(***************************************************************************)
VARIABLES
    fs,             \* the files of the store: path -> JSON value
    uuid_counter,   \* the number of ids the id generator has handed out
    started,        \* the number of invocations so far
    pc,             \* where each process is in its command
    args,           \* sys.argv[1:] of each process
    stdin,          \* the bytes on each process's standard input
    local,          \* the local variables of each process's call chain
    result,         \* how each process's command ended
    sender,         \* what the sender of the message on stdin wrote
    fs_start,       \* the files when a process running alone started
    file_written,   \* the paths of the process's FILE_WRITTEN events
    email_sent,     \* the process's EMAIL_SENT events
    send_attempts,  \* the number of SMTPServer.send calls of the process
    exit_message,   \* the argument of the process's sys.exit call, if any
    round_trip,     \* an Email on its way through render, parse and render
    smtp_sessions,  \* the number of SMTP sessions the process holds open
    transmitted     \* the number of send_message calls that returned

vars == <<fs, uuid_counter, started, pc, args, stdin, local, result, sender,
          fs_start, file_written, email_sent, send_attempts, exit_message,
          round_trip, smtp_sessions, transmitted>>

NoLocals ==
    [project |-> <<>>, email_id |-> <<>>, entry_id |-> <<>>,
     conversation_id |-> <<>>, key |-> "", item |-> <<>>, x |-> EmptyDict,
     watchers |-> <<>>]

\* The steps that write a file
WriteSteps ==
    {"create_project", "create_email", "create_entry", "create_conversation",
     "append_write"}
\* The steps of create_conversation's three creates, which draw an id
CreateSteps == {"create_email", "create_entry", "create_conversation"}

NoRoundTrip ==
    [stage |-> "none", email |-> Email_new, rendered |-> <<>>,
     parsed |-> Email_new, rendered_again |-> <<>>]

Init ==
    /\ fs = <<>>
    /\ uuid_counter = 0
    /\ started = 0
    /\ pc = [p \in Procs |-> "idle"]
    /\ args = [p \in Procs |-> <<>>]
    /\ stdin = [p \in Procs |-> <<>>]
    /\ local = [p \in Procs |-> NoLocals]
    /\ result = [p \in Procs |-> "none"]
    /\ sender = [p \in Procs |-> NoSender]
    /\ fs_start = [p \in Procs |-> <<>>]
    /\ file_written = [p \in Procs |-> <<>>]
    /\ email_sent = [p \in Procs |-> <<>>]
    /\ send_attempts = [p \in Procs |-> 0]
    /\ exit_message = [p \in Procs |-> None]
    /\ round_trip = NoRoundTrip
    /\ smtp_sessions = [p \in Procs |-> 0]
    /\ transmitted = [p \in Procs |-> 0]

\* The command returned or raised: the process has ended.
Finish(p, how) ==
    /\ pc' = [pc EXCEPT ![p] = "done"]
    /\ result' = [result EXCEPT ![p] = how]

Goto(p, step) ==
    /\ pc' = [pc EXCEPT ![p] = step]
    /\ UNCHANGED result

\* Email.parse of each input, computed once
ParsedInput == [m \in Senders \cup {NoSender} |-> Email_parse(StdinOf[m])]
\* email = Email.parse(raw_email) of process p
ParsedEmail(p) == ParsedInput[CHOOSE m \in Senders \cup {NoSender} : StdinOf[m] = stdin[p]]

\* repr of a str without quotes, backslashes or unprintable characters
Repr_str(s) == <<"'">> \o s \o <<"'">>
\* repr of a list of such strs, as an f-string formats it
RECURSIVE JoinRepr(_)
JoinRepr(list) ==
    IF list = <<>> THEN <<>>
    ELSE IF Len(list) = 1 THEN Repr_str(list[1])
    ELSE Repr_str(list[1]) \o <<",", " ">> \o JoinRepr(Tail(list))
Repr_list(list) == <<"[">> \o JoinRepr(list) \o <<"]">>

UnknownCommandPrefix ==
    <<"U", "n", "k", "n", "o", "w", "n", " ", "c", "o", "m", "m", "a", "n", "d", " ">>
\* The mutant of the diagnostic that leaves the arguments out
UnknownCommandMessage_bare(a) == UnknownCommandPrefix
\* f"Unknown command {self.args.get()}"
UnknownCommandMessage(a) == UnknownCommandPrefix \o Repr_list(a)

\* The exit status of the interpreter: 0 when run() returns, 1 when an
\* exception or a sys.exit with a message leaves it
ExitStatus(how) == IF how = "ok" THEN 0 ELSE 1

(***************************************************************************)
(* ProjectsApp.run: the dispatch on the arguments.  process_email parses   *)
(* standard input and derives the project; the other commands take the     *)
(* project's name from the arguments.  The result is the step the command  *)
(* goes to, how it ended if it ended here, and its local variables.        *)
(***************************************************************************)
ProjectsApp_run(a, email) ==
    IF a = <<ProcessEmailCmd>> THEN
        IF Email_get_to(email) = None THEN
            \* None.split: AttributeError
            [pc |-> "done", result |-> "AttributeError", local |-> NoLocals,
             exit |-> None]
        ELSE
            [pc |-> "exists", result |-> "none",
             local |-> [NoLocals EXCEPT !.project = Email_get_user(email)],
             exit |-> None]
    ELSE IF SubSeq(a, 1, 1) = <<CreateProjectCmd>> THEN
        IF Len(a) < 2 THEN
            [pc |-> "done", result |-> "IndexError", local |-> NoLocals,
             exit |-> None]
        ELSE
            [pc |-> "create_project", result |-> "none",
             local |-> [NoLocals EXCEPT !.project = a[2]], exit |-> None]
    ELSE IF SubSeq(a, 1, 1) = <<WatchProjectCmd>> THEN
        IF Len(a) # 3 THEN
            [pc |-> "done", result |-> "ValueError", local |-> NoLocals,
             exit |-> None]
        ELSE
            [pc |-> "append_load", result |-> "none",
             local |-> [NoLocals EXCEPT !.project = a[2], !.key = "watchers",
                                        !.item = a[3]],
             exit |-> None]
    ELSE
        \* sys.exit(f"Unknown command {self.args.get()}")
        [pc |-> "done", result |-> "SystemExit", local |-> NoLocals,
         exit |-> UnknownCommandMessage(a)]

Dispatch(p, a, email, alone) ==
    LET to == ProjectsApp_run(a, email)
        Fresh(old, initial, new) ==
            [q \in Procs |-> IF q = p THEN new
                             ELSE IF alone THEN initial ELSE old[q]]
    IN  /\ pc' = Fresh(pc, "idle", to.pc)
        /\ result' = Fresh(result, "none", to.result)
        /\ local' = Fresh(local, NoLocals, to.local)
        /\ exit_message' = Fresh(exit_message, None, to.exit)

\* Whether a process is in the middle of a command
Running(p) == pc[p] \notin {"idle", "done"}

\* A process starts with some arguments and some standard input.  It takes
\* the first free place of the process table; with `alone`, the processes
\* that ended before have exited.
Start(p, limit, alone) ==
    /\ ~Running(p)
    /\ \A q \in Procs : q < p => Running(q)
    /\ started < limit
    /\ \E a \in ArgVectors :
       \E m \in StdinChoices(a) :
       LET Fresh(old, initial, new) ==
               [q \in Procs |-> IF q = p THEN new
                                ELSE IF alone THEN initial ELSE old[q]]
       IN  /\ args' = Fresh(args, <<>>, a)
           /\ stdin' = Fresh(stdin, <<>>, StdinOf[m])
           /\ sender' = Fresh(sender, NoSender, m)
           /\ fs_start' = Fresh(fs_start, <<>>, IF alone THEN fs ELSE <<>>)
           /\ file_written' = Fresh(file_written, <<>>, <<>>)
           /\ email_sent' = Fresh(email_sent, <<>>, <<>>)
           /\ send_attempts' = Fresh(send_attempts, 0, 0)
           /\ smtp_sessions' = Fresh(smtp_sessions, 0, 0)
           /\ transmitted' = Fresh(transmitted, 0, 0)
           /\ Dispatch(p, a, ParsedInput[m], alone)
    /\ started' = started + 1
    /\ UNCHANGED <<fs, uuid_counter, round_trip>>

\* One invocation at a time: the execution model of the specification.
Run(p) ==
    /\ \A q \in Procs : ~Running(q)
    /\ Start(p, MaxCommands, TRUE)

\* Invocations that overlap in time.
RunConcurrently(p) == Start(p, MaxConcurrent, FALSE)

\* Filesystem.write by process p: the file and its FILE_WRITTEN event
Write(p, path, contents) ==
    /\ fs' = Filesystem_write(fs, path, contents)
    /\ file_written' = [file_written EXCEPT ![p] = Append(@, path)]

(***************************************************************************)
(* ProjectEntity.create (create_project): the project document {} is       *)
(* written at the project's path, whatever is there.                       *)
(***************************************************************************)
CreateProject(p) ==
    /\ pc[p] = "create_project"
    /\ Write(p, ProjectPath(local[p].project), EmptyDict)
    /\ Finish(p, "ok")
    /\ UNCHANGED <<uuid_counter, started, exit_message, round_trip, smtp_sessions, transmitted, args, stdin, local, sender, fs_start,
                   email_sent, send_attempts>>

(***************************************************************************)
(* EmailProcessor.process, line 234: the existence check.                  *)
(***************************************************************************)
\* The mutant of the check that finds every project
ProjectEntity_exists_always(files, name) == TRUE
\* DatabaseEntity.exists of a project
ProjectEntity_exists(files, name) == Filesystem_exists(files, ProjectPath(name))

\* The mutant of the check that waits for the project to appear
Exists_wait(p) ==
    /\ pc[p] = "exists"
    /\ IF ProjectEntity_exists(fs, local[p].project)
       THEN Goto(p, "create_email")
       ELSE Goto(p, "exists")
    /\ UNCHANGED <<fs, uuid_counter, started, exit_message, round_trip,
                   smtp_sessions, transmitted, args, stdin, local, sender,
                   fs_start, file_written, email_sent, send_attempts>>
Exists(p) ==
    /\ pc[p] = "exists"
    /\ IF ProjectEntity_exists(fs, local[p].project)
       THEN Goto(p, "create_email")
       ELSE Finish(p, "ProjectNotFound")
    /\ UNCHANGED <<fs, uuid_counter, started, exit_message, round_trip, smtp_sessions, transmitted, args, stdin, local, sender,
                   fs_start, file_written, email_sent, send_attempts>>

(***************************************************************************)
(* ProjectEntity.create_conversation: the three creates, innermost first.  *)
(***************************************************************************)
\* self.email(None).create(raw_email)
CreateEmail(p) ==
    /\ pc[p] = "create_email"
    /\ uuid_counter' = NullUuid_uuid4(uuid_counter)
    /\ LET id == NullUuid4_hex(uuid_counter')
       IN  /\ Write(p, EmailPath(local[p].project, id), EmailEntity_data(stdin[p]))
           /\ local' = [local EXCEPT ![p].email_id = id]
    /\ Goto(p, "create_entry")
    /\ UNCHANGED <<started, exit_message, round_trip, smtp_sessions, transmitted, args, stdin, sender, fs_start, email_sent, send_attempts>>

\* self.store.create("projects/{name}/conversations/entries/", {...})
CreateEntry(p) ==
    /\ pc[p] = "create_entry"
    /\ uuid_counter' = NullUuid_uuid4(uuid_counter)
    /\ LET id == NullUuid4_hex(uuid_counter')
       IN  /\ Write(p, EntryPath(local[p].project, id), EntryData(local[p].email_id))
           /\ local' = [local EXCEPT ![p].entry_id = id]
    /\ Goto(p, "create_conversation")
    /\ UNCHANGED <<started, exit_message, round_trip, smtp_sessions, transmitted, args, stdin, sender, fs_start, email_sent, send_attempts>>

\* self.store.create("projects/{name}/conversations/", {...}), and the
\* arguments of the append that follows
\* The mutant of process() that notifies the watchers before the
\* conversation is appended to the project document
CreateConversation_notify_first(p) ==
    /\ pc[p] = "create_conversation"
    /\ uuid_counter' = NullUuid_uuid4(uuid_counter)
    /\ LET id == NullUuid4_hex(uuid_counter')
       IN  /\ Write(p, ConversationPath(local[p].project, id),
                    ConversationData(Email_get_subject(ParsedEmail(p)),
                                     local[p].entry_id))
           /\ local' = [local EXCEPT ![p].conversation_id = id,
                                     ![p].key = "conversations",
                                     ![p].item = [id |-> id]]
    /\ Goto(p, "load_watchers")
    /\ UNCHANGED <<started, exit_message, round_trip, smtp_sessions, transmitted,
                   args, stdin, sender, fs_start, email_sent, send_attempts>>
CreateConversation(p) ==
    /\ pc[p] = "create_conversation"
    /\ uuid_counter' = NullUuid_uuid4(uuid_counter)
    /\ LET id == NullUuid4_hex(uuid_counter')
       IN  /\ Write(p, ConversationPath(local[p].project, id),
                    ConversationData(Email_get_subject(ParsedEmail(p)),
                                     local[p].entry_id))
           /\ local' = [local EXCEPT ![p].conversation_id = id,
                                     ![p].key = "conversations",
                                     ![p].item = [id |-> id]]
    /\ Goto(p, "append_load")
    /\ UNCHANGED <<started, exit_message, round_trip, smtp_sessions, transmitted, args, stdin, sender, fs_start, email_sent, send_attempts>>

(***************************************************************************)
(* JsonStore.append on the project document (create_conversation and       *)
(* add_watcher): the load, then the write of the whole document.           *)
(***************************************************************************)
\* The mutant of the load that takes a missing document for an empty one
AppendLoad_creates(p) ==
    /\ pc[p] = "append_load"
    /\ local' = [local EXCEPT ![p].x =
                    DictGet(fs, ProjectPath(local[p].project), EmptyDict)]
    /\ Goto(p, "append_write")
    /\ UNCHANGED <<fs, uuid_counter, started, exit_message, round_trip, smtp_sessions, transmitted, args,
                   stdin, sender, fs_start, file_written, email_sent,
                   send_attempts>>
AppendLoad(p) ==
    /\ pc[p] = "append_load"
    /\ IF Filesystem_exists(fs, ProjectPath(local[p].project))
       THEN /\ local' = [local EXCEPT ![p].x = fs[ProjectPath(local[p].project)]]
            /\ Goto(p, "append_write")
       ELSE \* open(path, "r") of a missing file
            /\ Finish(p, "FileNotFoundError")
            /\ UNCHANGED local
    /\ UNCHANGED <<fs, uuid_counter, started, exit_message, round_trip, smtp_sessions, transmitted, args, stdin, sender, fs_start,
                   file_written, email_sent, send_attempts>>

\* The mutant of append that writes the stored document with the item added
AppendedDocument_fresh(p) ==
    JsonStore_append_item(fs[ProjectPath(local[p].project)], local[p].key, local[p].item)
\* The document append writes back: the one it loaded, with the item added
AppendedDocument(p) ==
    JsonStore_append_item(local[p].x, local[p].key, local[p].item)

AppendWrite(p) ==
    /\ pc[p] = "append_write"
    /\ Write(p, ProjectPath(local[p].project), AppendedDocument(p))
    /\ IF args[p][1] = WatchProjectCmd
       THEN Finish(p, "ok")
       ELSE Goto(p, "load_watchers")
    /\ UNCHANGED <<uuid_counter, started, exit_message, round_trip, smtp_sessions, transmitted, args, stdin, local, sender, fs_start,
                   email_sent, send_attempts>>

(***************************************************************************)
(* EmailProcessor.process, lines 237-244: the fan-out to the watchers.     *)
(***************************************************************************)
LoadWatchers(p) ==
    /\ pc[p] = "load_watchers"
    /\ IF ~Filesystem_exists(fs, ProjectPath(local[p].project))
       THEN /\ Finish(p, "FileNotFoundError")
            /\ UNCHANGED local
       ELSE LET watchers == WatchersOf(fs[ProjectPath(local[p].project)])
            IN  /\ local' = [local EXCEPT ![p].watchers = watchers]
                /\ IF watchers = <<>> THEN Finish(p, "ok") ELSE Goto(p, "send")
    /\ UNCHANGED <<fs, uuid_counter, started, exit_message, round_trip, smtp_sessions, transmitted, args, stdin, sender, fs_start,
                   file_written, email_sent, send_attempts>>

\* One turn of the loop, up to the end of the with block of SMTPServer.send:
\* the session is open, send_message has returned and EMAIL_SENT is notified.
Send(p) ==
    /\ pc[p] = "send"
    /\ \E message \in {Notification(ParsedEmail(p), local[p].project,
                                     local[p].conversation_id, Head(local[p].watchers))} :
           email_sent' = [email_sent EXCEPT ![p] = Append(@, EmailSentEvent(message))]
    /\ send_attempts' = [send_attempts EXCEPT ![p] = @ + 1]
    /\ smtp_sessions' = [smtp_sessions EXCEPT ![p] = @ + 1]
    /\ transmitted' = [transmitted EXCEPT ![p] = @ + 1]
    /\ Goto(p, "smtp_exit")
    /\ UNCHANGED <<fs, uuid_counter, started, exit_message, round_trip, args,
                   stdin, local, sender, fs_start, file_written>>

\* The with block is left: the session is closed, and the loop goes on with
\* the next watcher.
SmtpExit(p) ==
    /\ pc[p] = "smtp_exit"
    /\ smtp_sessions' = [smtp_sessions EXCEPT ![p] = @ - 1]
    /\ local' = [local EXCEPT ![p].watchers = Tail(@)]
    /\ IF Tail(local[p].watchers) = <<>> THEN Finish(p, "ok") ELSE Goto(p, "send")
    /\ UNCHANGED <<fs, uuid_counter, started, exit_message, round_trip, args,
                   stdin, sender, fs_start, file_written, email_sent,
                   send_attempts, transmitted>>

\* The mutant of a failed send that goes on with the next watcher
SendFails_continue(p) ==
    /\ pc[p] = "send"
    /\ send_attempts' = [send_attempts EXCEPT ![p] = @ + 1]
    /\ local' = [local EXCEPT ![p].watchers = Tail(@)]
    /\ IF Tail(local[p].watchers) = <<>>
       THEN Finish(p, "SMTPException") ELSE Goto(p, "send")
    /\ UNCHANGED <<fs, uuid_counter, started, exit_message, round_trip,
                   smtp_sessions, transmitted, args, stdin, sender, fs_start,
                   file_written, email_sent>>
\* The mutant of a failed send that leaves the with block without closing
\* the session
SendFails_leak(p) ==
    /\ pc[p] = "send"
    /\ send_attempts' = [send_attempts EXCEPT ![p] = @ + 1]
    /\ smtp_sessions' = [smtp_sessions EXCEPT ![p] = @ + 1]
    /\ Finish(p, "SMTPException")
    /\ UNCHANGED <<fs, uuid_counter, started, exit_message, round_trip,
                   transmitted, args, stdin, local, sender, fs_start,
                   file_written, email_sent>>
\* SMTPServer.send raises: either SMTP() cannot open the session, or
\* send_message fails in the open session, which the with block closes as
\* the exception leaves it.  No session stays open, no event is notified,
\* and the exception leaves process().
SendFails(p) ==
    /\ pc[p] = "send"
    /\ send_attempts' = [send_attempts EXCEPT ![p] = @ + 1]
    /\ Finish(p, "SMTPException")
    /\ UNCHANGED <<fs, uuid_counter, started, exit_message, round_trip,
                   smtp_sessions, transmitted, args, stdin, local, sender,
                   fs_start, file_written, email_sent>>

\* The mutant of a failed write that removes the files the command wrote
WriteFails_rollback(p) ==
    /\ pc[p] \in WriteSteps
    /\ uuid_counter' = IF pc[p] \in CreateSteps
                       THEN NullUuid_uuid4(uuid_counter) ELSE uuid_counter
    /\ fs' = [q \in (DOMAIN fs) \ {file_written[p][i] : i \in 1..Len(file_written[p])}
                |-> fs[q]]
    /\ Finish(p, "OSError")
    /\ UNCHANGED <<started, exit_message, round_trip, smtp_sessions, transmitted, args, stdin, local, sender,
                   fs_start, file_written, email_sent, send_attempts>>
\* Filesystem.write raises (makedirs or open fails): nothing is written and
\* the exception leaves the command.  A create has drawn its id before.
WriteFails(p) ==
    /\ pc[p] \in WriteSteps
    /\ uuid_counter' = IF pc[p] \in CreateSteps
                       THEN NullUuid_uuid4(uuid_counter) ELSE uuid_counter
    /\ Finish(p, "OSError")
    /\ UNCHANGED <<fs, started, exit_message, round_trip, smtp_sessions, transmitted, args, stdin, local, sender, fs_start,
                   file_written, email_sent, send_attempts>>

(***************************************************************************)
(* The specifications.                                                     *)
(***************************************************************************)
Step(p) ==
    \/ WriteFails(p)
    \/ SendFails(p)
    \/ CreateProject(p)
    \/ Exists(p)
    \/ CreateEmail(p)
    \/ CreateEntry(p)
    \/ CreateConversation(p)
    \/ AppendLoad(p)
    \/ AppendWrite(p)
    \/ LoadWatchers(p)
    \/ Send(p)
    \/ SmtpExit(p)

Next == \E p \in Procs : Run(p) \/ Step(p)

NextConcurrent == \E p \in Procs : RunConcurrently(p) \/ Step(p)

\* One invocation at a time.
Spec == Init /\ [][Next]_vars

\* One invocation at a time, where a process that can take a step takes
\* it: each operation on the store and each send returns or raises.
SpecFair == Spec /\ \A p \in Procs : WF_vars(Step(p))

(***************************************************************************)
(* Email.render and Email.parse on their own: an Email is built by         *)
(* create_test_instance, rendered, parsed and rendered again, as the       *)
(* doctest of Email.parse does.                                            *)
(***************************************************************************)
FromAddresses == {<<"u", "@", "x">>, <<>>}
ToAddresses == {<<"t", "@", "d">>, <<>>}
Subjects == {<<"H", "i", "!">>, <<>>, <<" ", "H", "i">>, <<"a", ":", " ", "b">>}
Bodies == {<<"h", "i">>, <<>>, <<"a", "\n", "\n", "b">>, <<"h", "i", "\n">>}

OtherVars ==
    <<fs, uuid_counter, started, pc, args, stdin, local, result, sender,
      fs_start, file_written, email_sent, send_attempts, exit_message,
      smtp_sessions, transmitted>>

CreateTestInstance ==
    /\ round_trip.stage \in {"none", "rendered_again"}
    /\ \E f \in FromAddresses, t \in ToAddresses, s \in Subjects, b \in Bodies :
           round_trip' = [NoRoundTrip EXCEPT
                             !.stage = "created",
                             !.email = Email_create_test_instance(f, t, b, s)]
    /\ UNCHANGED OtherVars

Render ==
    /\ round_trip.stage = "created"
    /\ round_trip' = [round_trip EXCEPT !.stage = "rendered",
                                        !.rendered = Email_render(round_trip.email)]
    /\ UNCHANGED OtherVars

Parse ==
    /\ round_trip.stage = "rendered"
    /\ round_trip' = [round_trip EXCEPT !.stage = "parsed",
                                        !.parsed = Email_parse(round_trip.rendered)]
    /\ UNCHANGED OtherVars

RenderAgain ==
    /\ round_trip.stage = "parsed"
    /\ round_trip' = [round_trip EXCEPT
                         !.stage = "rendered_again",
                         !.rendered_again = Email_render(round_trip.parsed)]
    /\ UNCHANGED OtherVars

NextRoundTrip == CreateTestInstance \/ Render \/ Parse \/ RenderAgain

SpecRoundTrip == Init /\ [][NextRoundTrip]_vars

\* Invocations of several processes, interleaved file operation by file
\* operation.
SpecConcurrent == Init /\ [][NextConcurrent]_vars

(***************************************************************************)
(* Properties.                                                             *)
(***************************************************************************)
IsIngestion(p) == args[p] = <<ProcessEmailCmd>>
IsWatch(p) == Len(args[p]) = 3 /\ args[p][1] = WatchProjectCmd
Ended(p) == pc[p] = "done"
Succeeded(p) == pc[p] = "done" /\ result[p] = "ok"
Last(s) == s[Len(s)]
IsPrefix(s, t) == Len(s) <= Len(t) /\ SubSeq(t, 1, Len(s)) = s
Conversations(document) == DictGet(document, "conversations", <<>>)

\* C1: a successful process_email run on an email addressed to the existing
\* project P with stored watchers W appends exactly one {id} reference to
\* P's conversations and performs exactly len(W) sends, the To addresses of
\* the sends being W in stored order (duplicates included).
C1_OneConversationAndOneSendPerWatcher ==
    \A p \in Procs :
        (IsIngestion(p) /\ Succeeded(p)) =>
            /\ sender[p].has_to
            /\ ProjectPath(sender[p].local) \in DOMAIN fs_start[p]
            /\ LET before == fs_start[p][ProjectPath(sender[p].local)]
                   after == fs[ProjectPath(sender[p].local)]
                   W == DictGet(before, "watchers", <<>>)
               IN  /\ Len(Conversations(after)) = Len(Conversations(before)) + 1
                   /\ IsPrefix(Conversations(before), Conversations(after))
                   /\ DOMAIN Last(Conversations(after)) = {"id"}
                   /\ send_attempts[p] = Len(W)
                   /\ Len(email_sent[p]) = Len(W)
                   /\ \A i \in 1..Len(W) : email_sent[p][i].to = W[i]

\* A successful ingestion into a project that has the same watcher twice.
C1_Witness ==
    \E p \in Procs :
        /\ IsIngestion(p) /\ Succeeded(p)
        /\ ProjectPath(sender[p].local) \in DOMAIN fs_start[p]
        /\ LET W == DictGet(fs_start[p][ProjectPath(sender[p].local)], "watchers", <<>>)
           IN  Len(W) = 2 /\ W[1] = W[2] /\ Len(email_sent[p]) = 2

\* C2: an ingestion whose project key names no existing project ends with
\* ProjectNotFound, and at no point of the run is a file written or a send
\* made: the store stays what it was when the run started.
C2_ProjectNotFoundWritesNothing ==
    \A p \in Procs :
        (/\ IsIngestion(p)
         /\ sender[p].has_to
         /\ ProjectPath(sender[p].local) \notin DOMAIN fs_start[p]) =>
            /\ fs = fs_start[p]
            /\ file_written[p] = <<>>
            /\ email_sent[p] = <<>>
            /\ send_attempts[p] = 0
            /\ Ended(p) => result[p] = "ProjectNotFound"

\* An ingestion ended with ProjectNotFound while other projects exist.
C2_Witness ==
    \E p \in Procs :
        /\ IsIngestion(p) /\ Ended(p) /\ result[p] = "ProjectNotFound"
        /\ ProjectPath(sender[p].local) \notin DOMAIN fs
        /\ DOMAIN fs # {}

\* C3: the project an inbound email is routed to is the part of its To
\* address before the first "@", whatever its From address: two emails with
\* the same To address are routed to the same project.
C3_RoutedByToAddress ==
    \A p \in Procs :
        (IsIngestion(p) /\ sender[p].has_to) =>
            /\ local[p].project = sender[p].local
            /\ \A q \in Procs :
                (/\ IsIngestion(q) /\ sender[q].has_to
                 /\ sender[q].local = sender[p].local
                 /\ sender[q].domain = sender[p].domain) =>
                    local[q].project = local[p].project

\* Two ingestions of emails with the same To address and different From
\* addresses have both written a conversation in the project of that address.
C3_Witness ==
    \E p, q \in Procs :
        /\ IsIngestion(p) /\ IsIngestion(q)
        /\ sender[p].has_to /\ sender[q].has_to
        /\ sender[p].from # sender[q].from
        /\ sender[p].local = sender[q].local /\ sender[p].domain = sender[q].domain
        /\ Succeeded(p) /\ Succeeded(q)
        /\ \A r \in {p, q} :
            ConversationPath(sender[p].local, local[r].conversation_id)
                \in DOMAIN fs

\* C4: every notification of an ingestion run for project key K has
\* From = K@domain, the inbound email's subject, To = the watcher, and
\* Reply-To = K+C@domain, where C is the id the run appended last to K's
\* conversations, the id of a Conversation document the run created.
C4_NotificationHeaders ==
    \A p \in Procs :
        (IsIngestion(p) /\ email_sent[p] # <<>>) =>
            LET K == sender[p].local
                C == Last(Conversations(fs[ProjectPath(K)])).id
                W == DictGet(fs_start[p][ProjectPath(K)], "watchers", <<>>)
            IN  /\ ConversationEntityPath(K, C) \in DOMAIN fs
                /\ ConversationEntityPath(K, C) \notin DOMAIN fs_start[p]
                /\ \E i \in 1..Len(file_written[p]) :
                        file_written[p][i] = ConversationEntityPath(K, C)
                /\ \A i \in 1..Len(email_sent[p]) :
                    /\ email_sent[p][i].from = K \o MailDomain
                    /\ email_sent[p][i].subject = sender[p].subject
                    /\ email_sent[p][i].to = W[i]
                    /\ email_sent[p][i].reply_to = K \o <<"+">> \o C \o MailDomain

\* An ingestion has notified two different watchers.
C4_Witness ==
    \E p \in Procs :
        /\ IsIngestion(p) /\ Succeeded(p)
        /\ Len(email_sent[p]) = 2
        /\ email_sent[p][1].to # email_sent[p][2].to

\* C5: after a successful ingestion of the bytes R with subject S into
\* project P, the last reference of P's conversations resolves to a
\* Conversation with subject S and exactly one entry, which resolves to a
\* ConversationEntry whose source_email resolves to an EmailRecord whose
\* raw_email, base64-decoded, is R.
C5_ConversationResolvesToRawEmail ==
    \A p \in Procs :
        (IsIngestion(p) /\ Succeeded(p)) =>
            LET P == sender[p].local
                ref == Last(Conversations(fs[ProjectPath(P)]))
            IN  /\ ConversationEntityPath(P, ref.id) \in DOMAIN fs
                /\ LET conversation == fs[ConversationEntityPath(P, ref.id)]
                   IN  /\ conversation.subject = sender[p].subject
                       /\ Len(conversation.entries) = 1
                       /\ ConversationEntryEntityPath(P, conversation.entries[1].id)
                            \in DOMAIN fs
                       /\ LET entry == fs[ConversationEntryEntityPath(
                                            P, conversation.entries[1].id)]
                          IN  /\ EmailPath(P, entry.source_email) \in DOMAIN fs
                              /\ b64decode(fs[EmailPath(P, entry.source_email)].raw_email)
                                    = stdin[p]

\* A successful ingestion into a project that had a conversation already.
C5_Witness ==
    \E p \in Procs :
        /\ IsIngestion(p) /\ Succeeded(p)
        /\ Len(Conversations(fs[ProjectPath(sender[p].local)])) = 2
        /\ Len(stdin[p]) > 0

\* Whether process p's append has written its item back
Appended(p) ==
    /\ Succeeded(p)
    /\ IsWatch(p) \/ IsIngestion(p)

\* Whether the project document p appended to holds p's item
HoldsItem(p) ==
    LET document == fs[ProjectPath(local[p].project)]
        field == DictGet(document, local[p].key, <<>>)
    IN  \E i \in 1..Len(field) : field[i] = local[p].item

\* C6: append is a read-modify-write of the whole document with no lock:
\* the document an append writes back is the one it loaded with its item
\* added, whatever was written to the file since the load, so that of two
\* appends that interleave one can be lost without an error.
C6_AppendWritesBackItsSnapshot ==
    [][\A p \in Procs :
        (/\ pc[p] = "append_write"
         /\ Len(file_written'[p]) = Len(file_written[p]) + 1) =>
            LET written == fs'[ProjectPath(local[p].project)]
                field == local[p].key
            IN  /\ DOMAIN written = (DOMAIN local[p].x) \cup {field}
                /\ written[field] = Append(DictGet(local[p].x, field, <<>>),
                                           local[p].item)
                /\ \A k \in DOMAIN local[p].x :
                        k # field => written[k] = local[p].x[k]]_vars

\* The lost update: two processes appended to the same project document,
\* both ended without an error, and the document holds the item of one of
\* them only.
C6_LostUpdate ==
    \E p, q \in Procs :
        /\ p # q
        /\ Appended(p) /\ Appended(q)
        /\ local[p].project = local[q].project
        /\ HoldsItem(q)
        /\ ~HoldsItem(p)

\* C7: when a send fails, the run ends there with the error: the sends to
\* the watchers before took effect, no send is attempted for the watchers
\* after, and the four files the run wrote, the project document with the
\* appended conversation among them, are still in the store.
C7_SendFailureAbortsFanOut ==
    \A p \in Procs :
        (send_attempts[p] > Len(email_sent[p])) =>
            LET K == sender[p].local
                before == fs_start[p][ProjectPath(K)]
                W == DictGet(before, "watchers", <<>>)
                N == send_attempts[p]
            IN  /\ Ended(p) /\ result[p] = "SMTPException"
                /\ N \in 1..Len(W)
                /\ Len(email_sent[p]) = N - 1
                /\ \A i \in 1..(N - 1) : email_sent[p][i].to = W[i]
                /\ Len(file_written[p]) = 4
                /\ \A i \in 1..4 : file_written[p][i] \in DOMAIN fs
                /\ file_written[p][4] = ProjectPath(K)
                /\ Len(Conversations(fs[ProjectPath(K)]))
                        = Len(Conversations(before)) + 1
                /\ IsPrefix(Conversations(before), Conversations(fs[ProjectPath(K)]))
                /\ ConversationEntityPath(K, Last(Conversations(fs[ProjectPath(K)])).id)
                        = file_written[p][3]

\* The send to the second of two watchers failed.
C7_Witness ==
    \E p \in Procs :
        /\ Ended(p) /\ result[p] = "SMTPException"
        /\ send_attempts[p] = 2
        /\ Len(email_sent[p]) = 1
        /\ Len(local[p].watchers) = 1

\* C8: once a project exists, each step leaves it in the store and leaves
\* its watchers and its conversations with their earlier value as a prefix.
C8_ProjectOnlyGrows ==
    [][\A n \in ProjectNames :
        ProjectPath(n) \in DOMAIN fs =>
            /\ ProjectPath(n) \in DOMAIN fs'
            /\ IsPrefix(DictGet(fs[ProjectPath(n)], "watchers", <<>>),
                        DictGet(fs'[ProjectPath(n)], "watchers", <<>>))
            /\ IsPrefix(Conversations(fs[ProjectPath(n)]),
                        Conversations(fs'[ProjectPath(n)]))]_vars

\* C9: every create with a generated id writes to a path at which no file
\* was: no generated id is used twice in a namespace.
C9_GeneratedIdsAreFresh ==
    [][\A p \in Procs :
        (/\ pc[p] \in CreateSteps
         /\ Len(file_written'[p]) = Len(file_written[p]) + 1) =>
            /\ Last(file_written'[p]) \notin DOMAIN fs
            /\ Cardinality(DOMAIN fs') = Cardinality(DOMAIN fs) + 1]_vars

\* Two ingestions have left two conversations, with two ids, in a project.
C9_Witness ==
    \E n \in ProjectNames :
        /\ ProjectPath(n) \in DOMAIN fs
        /\ Len(Conversations(fs[ProjectPath(n)])) = 2
        /\ Conversations(fs[ProjectPath(n)])[1].id # Conversations(fs[ProjectPath(n)])[2].id
        /\ \A i \in 1..2 :
            ConversationEntityPath(n, Conversations(fs[ProjectPath(n)])[i].id)
                \in DOMAIN fs

\* C10: add_watcher on a project whose document has no watchers field does
\* not fail for the missing field: unless the write of the file itself
\* fails, it succeeds and the project's watchers are the added address alone.
C10_FirstWatcherInitialisesField ==
    \A p \in Procs :
        (/\ IsWatch(p) /\ Ended(p)
         /\ ProjectPath(args[p][2]) \in DOMAIN fs_start[p]
         /\ "watchers" \notin DOMAIN fs_start[p][ProjectPath(args[p][2])]) =>
            \/ /\ result[p] = "ok"
               /\ "watchers" \in DOMAIN fs[ProjectPath(args[p][2])]
               /\ fs[ProjectPath(args[p][2])].watchers = <<args[p][3]>>
               /\ \A k \in DOMAIN fs_start[p][ProjectPath(args[p][2])] :
                    fs[ProjectPath(args[p][2])][k]
                        = fs_start[p][ProjectPath(args[p][2])][k]
            \/ /\ result[p] = "OSError"
               /\ fs = fs_start[p]

\* The first watcher of a project that has a conversation already was added.
C10_Witness ==
    \E p \in Procs :
        /\ IsWatch(p) /\ Succeeded(p)
        /\ ProjectPath(args[p][2]) \in DOMAIN fs_start[p]
        /\ DOMAIN fs_start[p][ProjectPath(args[p][2])] = {"conversations"}
        /\ fs[ProjectPath(args[p][2])].watchers = <<args[p][3]>>

\* The project key of an address's local part when the part after "+" is
\* not looked at
KeyOf(local_part) == SplitFirst(local_part, "+")
\* The command ended by itself, not by an injected write or send failure
NoFault(p) == Ended(p) /\ result[p] \notin {"OSError", "SMTPException"}

\* C11: an inbound message addressed to key+convid@domain has the same
\* effect on the project key as the same message addressed to key@domain:
\* when the project key exists, the ingestion succeeds, appends one
\* conversation to key's document and notifies each of key's watchers.
C11_PlusAddressRoutedLikePlain ==
    \A p \in Procs :
        (IsIngestion(p) /\ NoFault(p) /\ sender[p].has_to) =>
            LET path == ProjectPath(KeyOf(sender[p].local))
            IN  Filesystem_exists(fs_start[p], path) =>
                    /\ result[p] = "ok"
                    /\ Filesystem_exists(fs, path)
                    /\ Len(Conversations(fs[path]))
                           = Len(Conversations(fs_start[p][path])) + 1
                    /\ Len(email_sent[p]) = Len(WatchersOf(fs_start[p][path]))

\* The arguments run() takes for none of its three commands
Unrecognized(a) ==
    /\ a # <<ProcessEmailCmd>>
    /\ SubSeq(a, 1, 1) \notin {<<CreateProjectCmd>>, <<WatchProjectCmd>>}
\* t occurs in s
Contains(s, t) ==
    \E i \in 0..(Len(s) - Len(t)) : SubSeq(s, i + 1, i + Len(t)) = t

\* C12: an unrecognized command ends the run with a non-zero exit status
\* and a diagnostic that names each of the unknown arguments; it writes no
\* document, ingests nothing of what standard input holds and sends nothing.
C12_UnknownCommandExits ==
    \A p \in Procs :
        (Ended(p) /\ Unrecognized(args[p])) =>
            /\ result[p] = "SystemExit"
            /\ ExitStatus(result[p]) # 0
            /\ exit_message[p] # None
            /\ \A i \in 1..Len(args[p]) : Contains(exit_message[p], args[p][i])
            /\ file_written[p] = <<>>
            /\ fs = fs_start[p]
            /\ email_sent[p] = <<>>
            /\ send_attempts[p] = 0

\* An unknown command has ended while standard input held a message for a
\* project that exists and has a watcher.
C12_Witness ==
    \E p \in Procs :
        /\ Ended(p)
        /\ Unrecognized(args[p])
        /\ stdin[p] = StdinOf[TestMessage]
        /\ ProjectEntity_exists(fs, Timeline)
        /\ WatchersOf(fs[ProjectPath(Timeline)]) # <<>>

\* The parse error of the error taxonomy
MalformedEmailError == "MalformedEmailError"

\* C13: ingesting bytes that cannot be parsed into an Email with a To
\* address fails with a MalformedEmailError raised by the parse step, before
\* any project lookup, document write or send.
C13_UnparseableFailsAtParse ==
    \A p \in Procs :
        (Ended(p) /\ IsIngestion(p) /\ Email_get_to(ParsedEmail(p)) = None) =>
            /\ result[p] = MalformedEmailError
            /\ local[p].project = <<>>
            /\ file_written[p] = <<>>
            /\ send_attempts[p] = 0

\* The From, To and Subject of an Email are not empty and do not start
\* with a blank
PlainHeaders(email) ==
    \A name \in {HFrom, HTo, HSubject} :
        LET value == Email_get(email, name)
        IN  value # None /\ value # <<>> /\ Head(value) \notin {" ", "\t"}

C15_WritesInDependencyOrder ==
    \A p \in Procs :
        IsIngestion(p) =>
            LET w == file_written[p]
                name == local[p].project
                E == local[p].email_id
                X == local[p].entry_id
                C == local[p].conversation_id
            IN  /\ Len(w) <= 4
                /\ Len(w) >= 1 =>
                       /\ w[1] = EmailPath(name, E)
                       /\ fs[w[1]] = [raw_email |-> b64encode(stdin[p])]
                /\ Len(w) >= 2 =>
                       /\ w[2] = EntryPath(name, X)
                       /\ fs[w[2]] = [source_email |-> E]
                /\ Len(w) >= 3 =>
                       /\ w[3] = ConversationPath(name, C)
                       /\ fs[w[3]] = [subject |-> sender[p].subject,
                                      entries |-> <<[id |-> X]>>]
                       /\ \E k \in 1..uuid_counter :
                              /\ E = NullUuid4_hex(k)
                              /\ X = NullUuid4_hex(k + 1)
                              /\ C = NullUuid4_hex(k + 2)
                /\ Len(w) = 4 =>
                       /\ w[4] = ProjectPath(name)
                       /\ Last(Conversations(fs[w[4]])) = [id |-> C]

\* An ingestion into a project that had a conversation has made its four
\* writes and ended.
C15_Witness ==
    \E p \in Procs :
        /\ IsIngestion(p)
        /\ Succeeded(p)
        /\ Len(file_written[p]) = 4
        /\ Len(Conversations(fs[ProjectPath(local[p].project)])) >= 2

\* C16: an append to an existing document only adds: when its write is
\* done the field is what the store held for it before (nothing if the
\* field was absent) followed by the item, every other field of the
\* document is as it was, and every other document of the store is as it
\* was.
C16_AppendOnlyAdds ==
    [][\A p \in Procs :
        (/\ pc[p] = "append_write"
         /\ Len(file_written'[p]) = Len(file_written[p]) + 1) =>
            LET path == ProjectPath(local[p].project)
                field == local[p].key
            IN  /\ path \in DOMAIN fs
                /\ fs'[path][field]
                       = DictGet(fs[path], field, <<>>) \o <<local[p].item>>
                /\ DOMAIN fs'[path] = (DOMAIN fs[path]) \cup {field}
                /\ \A k \in DOMAIN fs[path] :
                       k # field => fs'[path][k] = fs[path][k]
                /\ DOMAIN fs' = DOMAIN fs
                /\ \A q \in DOMAIN fs : q # path => fs'[q] = fs[q]]_vars

\* A watcher was added to a project document that had a watcher and a
\* conversation already, in a store that holds other documents.
C16_Witness ==
    \E p \in Procs :
        /\ IsWatch(p)
        /\ Succeeded(p)
        /\ LET document == fs[ProjectPath(local[p].project)]
           IN  /\ Len(WatchersOf(document)) >= 2
               /\ Conversations(document) # <<>>
        /\ \E q \in DOMAIN fs : q # ProjectPath(local[p].project)

\* What the error taxonomy calls StorageError: the error of reading a file
\* that is not there
StorageError == "FileNotFoundError"

\* C17: an append (and the load it starts with) on a document that does not
\* exist fails with the StorageError and writes nothing: add_watcher on a
\* project that was never created leaves the store as it was, without a
\* document for the project.
C17_MissingDocumentFailsWithoutWrite ==
    \A p \in Procs :
        (/\ IsWatch(p) /\ Ended(p)
         /\ ProjectPath(args[p][2]) \notin DOMAIN fs_start[p]) =>
            /\ result[p] = StorageError
            /\ file_written[p] = <<>>
            /\ fs = fs_start[p]
            /\ ~ProjectEntity_exists(fs, args[p][2])

\* add_watcher on a project that was never created has ended, in a store
\* that holds another project.
C17_Witness ==
    \E p \in Procs :
        /\ IsWatch(p) /\ Ended(p)
        /\ ~ProjectEntity_exists(fs, args[p][2])
        /\ fs # <<>>

\* The ids a document refers to: the ids of its conversations, the ids of
\* its entries, its source email
IdsIn(document) ==
    {document.conversations[i].id :
        i \in 1..Len(DictGet(document, "conversations", <<>>))}
    \cup {document.entries[i].id :
        i \in 1..Len(DictGet(document, "entries", <<>>))}
    \cup (IF "source_email" \in DOMAIN document
          THEN {document.source_email} ELSE {})

\* C18: create_conversation does not roll back.  When its k-th write fails
\* (k in 2..4) the documents of the k-1 writes before are still in the
\* store, the project document is as it was when the ingestion started, and
\* no document other than these k-1 refers to one of their ids.
C18_NoRollback ==
    \A p \in Procs :
        (/\ IsIngestion(p) /\ Ended(p)
         /\ result[p] = "OSError"
         /\ file_written[p] # <<>>) =>
            LET w == file_written[p]
                name == local[p].project
                orphans == {w[i] : i \in 1..Len(w)}
                ids == {local[p].email_id, local[p].entry_id,
                        local[p].conversation_id} \ {<<>>}
            IN  /\ Len(w) \in 1..3
                /\ Cardinality(ids) = Len(w)
                /\ orphans \subseteq DOMAIN fs
                /\ \A q \in orphans : q \notin DOMAIN fs_start[p]
                /\ fs[ProjectPath(name)] = fs_start[p][ProjectPath(name)]
                /\ \A q \in (DOMAIN fs) \ orphans : IdsIn(fs[q]) \cap ids = {}

\* The write-back of the project document, the fourth write, failed in an
\* ingestion into a project that had a conversation.
C18_Witness ==
    \E p \in Procs :
        /\ IsIngestion(p) /\ Ended(p)
        /\ result[p] = "OSError"
        /\ Len(file_written[p]) = 3
        /\ Conversations(fs[ProjectPath(local[p].project)]) # <<>>

\* The files of the store that are not project documents: the email
\* records, the conversation entries and the conversations
IsRecord(path) ==
    /\ Len(path) >= Len(IndexId \o JsonExt)
    /\ SubSeq(path, Len(path) - Len(IndexId \o JsonExt) + 1, Len(path))
           # IndexId \o JsonExt

\* C19: an email record, a conversation entry or a conversation, once
\* written, is never written again nor deleted: every step of every
\* command, ingestions into the same project that overlap included, leaves
\* it in the store with the content it has.
C19_RecordsImmutable ==
    [][\A q \in DOMAIN fs :
        IsRecord(q) => (q \in DOMAIN fs' /\ fs'[q] = fs[q])]_vars

\* Two ingestions into the same project overlapped (the second started
\* before the first had written its last file) and both ended without an
\* error, leaving their six records in the store.
C19_Witness ==
    \E p, q \in Procs :
        /\ p # q
        /\ IsIngestion(p) /\ Succeeded(p)
        /\ IsIngestion(q) /\ Succeeded(q)
        /\ local[p].project = local[q].project
        /\ ~HoldsItem(p)
        /\ Cardinality({f \in DOMAIN fs : IsRecord(f)}) >= 6

\* C20: SMTPServer.send leaves no session open, whether send_message
\* returned or raised, and notifies EMAIL_SENT only when send_message
\* returned: a process holds a session only inside the with block, holds
\* none when its command has ended, has as many EMAIL_SENT events as
\* send_message calls that returned, and a send that failed has ended the
\* command with the error and without an event.
C20_SessionReleasedEventOnSuccess ==
    \A p \in Procs :
        /\ smtp_sessions[p] = (IF pc[p] = "smtp_exit" THEN 1 ELSE 0)
        /\ Ended(p) => smtp_sessions[p] = 0
        /\ Len(email_sent[p]) = transmitted[p]
        /\ send_attempts[p] \in {transmitted[p], transmitted[p] + 1}
        /\ send_attempts[p] > transmitted[p] =>
               (Ended(p) /\ result[p] = "SMTPException")

\* A send failed after another had succeeded: one event, two attempts, no
\* session open.
C20_Witness ==
    \E p \in Procs :
        /\ Ended(p) /\ result[p] = "SMTPException"
        /\ transmitted[p] = 1
        /\ send_attempts[p] = 2
        /\ smtp_sessions[p] = 0

\* C21: the steps of one ingestion happen in order.  The existence check
\* comes before every write: nothing is written or sent when it is made,
\* and the first write follows a check that found the project.  The four
\* writes, the write-back of the project document last, are done before
\* the first send, and no file is written once a send was attempted.
C21_CheckThenWritesThenSends ==
    [][\A p \in Procs :
        (IsIngestion(p) /\ Running(p)) =>
            /\ pc[p] = "exists" =>
                   (file_written[p] = <<>> /\ send_attempts[p] = 0)
            /\ (pc'[p] = "create_email" /\ pc[p] # "create_email") =>
                   (pc[p] = "exists" /\ ProjectEntity_exists(fs, local[p].project))
            /\ file_written'[p] # file_written[p] =>
                   /\ pc[p] \in {"create_email", "create_entry",
                                 "create_conversation", "append_write"}
                   /\ pc[p] = "create_email" <=> file_written[p] = <<>>
                   /\ send_attempts[p] = 0
                   /\ send_attempts'[p] = 0
            /\ send_attempts'[p] # send_attempts[p] =>
                   /\ Len(file_written[p]) = 4
                   /\ file_written[p][4] = ProjectPath(local[p].project)
                   /\ \A i \in 1..4 : file_written[p][i] \in DOMAIN fs
                   /\ file_written'[p] = file_written[p]]_vars

\* An ingestion made its four writes and then sent to two watchers.
C21_Witness ==
    \E p \in Procs :
        /\ IsIngestion(p) /\ Succeeded(p)
        /\ Len(file_written[p]) = 4
        /\ Len(email_sent[p]) = 2

\* The ids the generator can hand out within the bounds, and the paths at
\* which the entity classes look up a conversation, an entry and an email
\* record of a project by these ids
MaxIds == 3 * (MaxCommands + MaxConcurrent)
Ids == [k \in 1..MaxIds |-> NullUuid4_hex(k)]
ConversationDocs ==
    [name \in ProjectNames |->
        [k \in 1..MaxIds |-> ConversationEntityPath(name, Ids[k])]]
EntryDocs ==
    [name \in ProjectNames |->
        [k \in 1..MaxIds |-> ConversationEntryEntityPath(name, Ids[k])]]
EmailDocs ==
    [name \in ProjectNames |-> [k \in 1..MaxIds |-> EmailPath(name, Ids[k])]]
\* The id names a document of the store among docs, the paths by id
Resolves(id, docs) ==
    \E k \in 1..uuid_counter : Ids[k] = id /\ docs[k] \in DOMAIN fs

\* C22: referential integrity in every state, those in the middle of
\* overlapping commands included: each {id} of a project document's
\* conversations names a conversation document of the project in the
\* store, each {id} of a conversation's entries names an entry document of
\* the project, and the source_email of each entry names an email record of
\* the project.
C22_ReferentialIntegrity ==
    \A name \in ProjectNames :
        /\ ProjectEntity_exists(fs, name) =>
               \A i \in 1..Len(Conversations(fs[ProjectPath(name)])) :
                   Resolves(Conversations(fs[ProjectPath(name)])[i].id,
                            ConversationDocs[name])
        /\ \A k \in 1..uuid_counter :
               /\ ConversationDocs[name][k] \in DOMAIN fs =>
                      LET conversation == fs[ConversationDocs[name][k]]
                      IN  /\ "entries" \in DOMAIN conversation
                          /\ \A i \in 1..Len(conversation.entries) :
                                 Resolves(conversation.entries[i].id, EntryDocs[name])
               /\ EntryDocs[name][k] \in DOMAIN fs =>
                      LET entry == fs[EntryDocs[name][k]]
                      IN  /\ "source_email" \in DOMAIN entry
                          /\ Resolves(entry.source_email, EmailDocs[name])

\* While one ingestion is about to write the project document back, its
\* conversation written and not yet referenced, another into the same
\* project has ended and the project holds a conversation.
C22_Witness ==
    \E p, q \in Procs :
        /\ p # q
        /\ IsIngestion(p) /\ Succeeded(p)
        /\ IsIngestion(q) /\ pc[q] = "append_write"
        /\ local[p].project = local[q].project
        /\ Conversations(fs[ProjectPath(local[p].project)]) # <<>>

\* The file is in the store as it was when process p started, or is
\* missing as it was then
SameFile(p, path) ==
    /\ path \in DOMAIN fs <=> path \in DOMAIN fs_start[p]
    /\ path \in DOMAIN fs => fs[path] = fs_start[p][path]
\* The field of the document is as it was when process p started, or is
\* missing as it was then
SameField(p, path, field) ==
    /\ path \in DOMAIN fs
    /\ field \in DOMAIN fs[path] <=> field \in DOMAIN fs_start[p][path]
    /\ field \in DOMAIN fs[path] => fs[path][field] = fs_start[p][path][field]
\* The files of the store now or when process p started
FilesOf(p) == (DOMAIN fs) \cup (DOMAIN fs_start[p])

\* C23: an ingestion into project P leaves P's watchers and every file
\* that is not under P's directory as they were; add_watcher on P leaves
\* P's conversations and every file other than P's document as they were,
\* the records of P and the other projects among them, and sends nothing.
C23_FrameEffects ==
    \A p \in Procs :
        /\ (IsIngestion(p) /\ local[p].project # <<>>) =>
               LET P == local[p].project
               IN  /\ ProjectPath(P) \in DOMAIN fs_start[p] =>
                          SameField(p, ProjectPath(P), "watchers")
                   /\ \A q \in FilesOf(p) :
                          ~StartsWith(q, ProjectsDir \o P \o <<"/">>) =>
                              SameFile(p, q)
        /\ IsWatch(p) =>
               LET P == args[p][2]
               IN  /\ ProjectPath(P) \in DOMAIN fs_start[p] =>
                          SameField(p, ProjectPath(P), "conversations")
                   /\ \A q \in FilesOf(p) : q # ProjectPath(P) => SameFile(p, q)
                   /\ email_sent[p] = <<>>
                   /\ send_attempts[p] = 0

\* A watcher was added to a project that holds a conversation ingested
\* before, in a store that holds another project.
C23_Witness ==
    \E p \in Procs :
        /\ IsWatch(p) /\ Succeeded(p)
        /\ Conversations(fs[ProjectPath(args[p][2])]) # <<>>
        /\ \E name \in ProjectNames :
               name # args[p][2] /\ ProjectEntity_exists(fs, name)

\* C24: every process_email run ends, each operation on the store and each
\* send returning or raising; it ends in success only with its four files
\* written, a notification sent to every watcher of the project and no
\* failed send, and otherwise with the error that stopped it.
C24_IngestionTerminates ==
    /\ \A p \in Procs : (IsIngestion(p) /\ Running(p)) ~> Ended(p)
    /\ [](\A p \in Procs :
            (IsIngestion(p) /\ Ended(p)) =>
                /\ result[p] \in {"ok", "AttributeError", "ProjectNotFound",
                                  "OSError", "SMTPException"}
                /\ result[p] = "ok" =>
                       /\ Len(file_written[p]) = 4
                       /\ send_attempts[p] = transmitted[p]
                       /\ transmitted[p]
                              = Len(WatchersOf(fs[ProjectPath(local[p].project)]))
                       /\ local[p].watchers = <<>>
                /\ result[p] = "SMTPException" =>
                       send_attempts[p] = transmitted[p] + 1
                /\ result[p] = "OSError" =>
                       (Len(file_written[p]) < 4 /\ send_attempts[p] = 0)
                /\ result[p] \in {"AttributeError", "ProjectNotFound"} =>
                       (file_written[p] = <<>> /\ send_attempts[p] = 0))

\* An ingestion has run through the loop over two watchers to its end.
C24_Witness ==
    \E p \in Procs :
        /\ IsIngestion(p) /\ Ended(p)
        /\ result[p] = "ok"
        /\ transmitted[p] = 2
        /\ local[p].watchers = <<>>

=============================================================================
